---- MODULE Spec2Model ----
(***************************************************************************)
(* Model of the PDF page-processing pipeline (pdfProcessor), of the page    *)
(* layout engine (pageLayoutEngine) and of the components that use them:   *)
(* Home, BookViewer and the shared-link ViewPage with its GET handler.     *)
(*                                                                         *)
(* JavaScript numbers are modelled as exact rationals n/d (d > 0) plus the *)
(* three non-finite values NaN, +Infinity and -Infinity, so that a         *)
(* division by zero yields what the code yields.  Page sizes are positive  *)
(* integers in page units; thresholds are given in tenths.                 *)
(***************************************************************************)
EXTENDS Integers, Sequences, FiniteSets, TLC

\* -------------------------------------------------------------------------
\* Bounds of the model
\* -------------------------------------------------------------------------
MaxPages == 3        \* largest pdf.numPages explored by processPDF
MaxW == 3            \* page widths  1..MaxW  (processPDF)
MaxH == 2            \* page heights 1..MaxH  (processPDF)
MaxDetectDim == 6    \* widths and heights 1..MaxDetectDim (detectSpread)
MaxThresholdTenths == 30  \* thresholds 1.1 .. MaxThresholdTenths/10 (detectSpread)
MaxLayoutPages == 4  \* longest page list given to createBookLayout
MaxPageNo == 3       \* page numbers 1..MaxPageNo of the lists given to createBookLayout
MaxRenderW == 4      \* page widths  1..MaxRenderW  (renderPageToCanvas)
MaxRenderH == 3      \* page heights 1..MaxRenderH (renderPageToCanvas)
MaxHomePages == 2    \* largest pdf.numPages of a file selected in Home
MaxHomeW == 2        \* page widths 1..MaxHomeW of a file selected in Home (height 1)
MaxRuns == 2         \* files selected in Home in one behaviour
MaxContainer == 6    \* container widths and heights 0..MaxContainer (calculateResponsivePageSize)
MaxSizerPage == 3    \* page widths and heights 1..MaxSizerPage (the two sizers)
MaxPadding == 2      \* paddings -1..MaxPadding (calculateResponsivePageSize)
MaxViewport == 10    \* container sizes 0, 100, .. 100 * MaxViewport px (BookViewer)
MaxLead == 1         \* a shared PDF is requested at age 0 or from MaxLead minutes before expiry on
MaxDelay == 1        \* minutes between the server's answer and the client reading it: 0..MaxDelay
MaxTicks == 2        \* firings of the expiry interval of the view page in one behaviour

\* -------------------------------------------------------------------------
\* JavaScript numbers
\* -------------------------------------------------------------------------
Fin(n, d) == [kind |-> "fin", n |-> n, d |-> d]
NaN == [kind |-> "nan", n |-> 0, d |-> 1]
PosInf == [kind |-> "pinf", n |-> 1, d |-> 1]
NegInf == [kind |-> "ninf", n |-> -1, d |-> 1]

IsFinite(a) == a.kind = "fin"

\* a - b, a * b and |a| on finite operands (every call site has finite operands)
NumSub(a, b) == Fin(a.n * b.d - b.n * a.d, a.d * b.d)
NumMul(a, b) == Fin(a.n * b.n, a.d * b.d)
NumAbs(a) == Fin(IF a.n < 0 THEN -a.n ELSE a.n, a.d)

\* a / b on finite operands: x/0 is +Infinity, -Infinity or NaN by the sign of x
NumDiv(a, b) ==
  IF b.n = 0
    THEN IF a.n > 0 THEN PosInf ELSE IF a.n < 0 THEN NegInf ELSE NaN
    ELSE IF b.n > 0 THEN Fin(a.n * b.d, a.d * b.n)
                    ELSE Fin(-(a.n * b.d), a.d * (-(b.n)))

\* a >= b; any comparison with NaN is false
NumGeq(a, b) ==
  IF a.kind = "nan" \/ b.kind = "nan" THEN FALSE
  ELSE IF a.kind = "pinf" \/ b.kind = "ninf" THEN TRUE
  ELSE IF a.kind = "ninf" \/ b.kind = "pinf" THEN FALSE
  ELSE a.n * b.d >= b.n * a.d

\* Math.min / Math.max: NaN if either argument is NaN
NumMin(a, b) ==
  IF a.kind = "nan" \/ b.kind = "nan" THEN NaN
  ELSE IF NumGeq(a, b) THEN b ELSE a

NumMax(a, b) ==
  IF a.kind = "nan" \/ b.kind = "nan" THEN NaN
  ELSE IF NumGeq(a, b) THEN a ELSE b

\* a > b; false if either is NaN
NumGt(a, b) ==
  IF a.kind = "nan" \/ b.kind = "nan" THEN FALSE ELSE ~NumGeq(b, a)

\* Math.floor on a finite operand (d > 0)
NumFloor(a) == Fin(a.n \div a.d, 1)

Zero == Fin(0, 1)
One == Fin(1, 1)
Two == Fin(2, 1)
Tenths(t) == Fin(t, 10)

\* -------------------------------------------------------------------------
\* State
\* -------------------------------------------------------------------------
VARIABLES
  \* processPDF
  doc,             \* pdf: sequence of pages, each [width, height] at scale 1
  options,         \* [enableSpreadSplit, spreadThreshold (tenths)]
  pc,              \* position in processPDF
  i,               \* loop variable i
  coverRatio,      \* coverRatio
  pages,           \* the output list pages
  srcOf,           \* history: srcOf[k] = value of i when pages[k] was pushed
  processedCount,  \* processedCount
  progress,        \* values passed to onProgress, in call order
  progressAt,      \* history: progressAt[k] = pages.length at the k-th onProgress call
  nextUrl,         \* number of blob URLs created so far (URL.createObjectURL)
  \* detectSpread
  dWidth, dHeight, dThreshold, dResult,
  \* createBookLayout / flattenForPageFlip
  lPages,          \* the page list given to createBookLayout
  layout,          \* <<>> before the call, <<BookLayout>> after it
  flatPages,       \* result of flattenForPageFlip; a side is <<page>> or <<>> (null)
  lpc,             \* "init", "built" (layout made), "flat" (flattened), "found" (searched)
  arranged,        \* <<>> before arrangeForBookViewer, <<[threw, value]>> after it
  flipCall,        \* <<>> before calculateFlipAnimation, <<[from, to, result]>> after it
  \* renderPageToCanvas / splitSpreadPage
  rPage,           \* the page: [width, height] of its viewport at scale 1
  rOptions,        \* [dpi, maxWidth, maxHeight]
  rCall,           \* <<>> before the call, <<[op, crop, out]>> after it
  \* Home
  hPages,          \* state pages (the displayed page list)
  isLoading,       \* state isLoading
  loadingProgress, \* state loadingProgress
  mounted,         \* the Home component is mounted
  revokeLog,       \* arguments of the URL.revokeObjectURL calls, in call order
  shown,           \* history: blob URLs of every list that was set as pages
  failedPage,      \* history: the source page whose processing failed in this run, or 0
  runUrlStart,     \* history: nextUrl when the current run was started
  runs,            \* number of handleFileSelect calls so far
  \* single calls of the remaining functions: <<>> before, <<[args.., out]>> after
  sizeCall,        \* calculateResponsivePageSize
  pageSizeCall,    \* BookViewer pageSize
  findCall,        \* findSpreadByPageNumber
  pageInfoCall,    \* getPageInfo
  \* ViewPage (shared link)
  viewPc,          \* position in loadPDF
  viewResponse,    \* <<>> before, <<response>> after fetch(`/api/pdf/${id}`)
  viewNow,         \* the clock, in minutes since the PDF was uploaded
  viewTicks,       \* firings of the expiry interval so far
  viewInterval,    \* the expiry interval is running
  viewPages,       \* state pages
  viewIsLoading,   \* state isLoading
  viewProgress,    \* state loadingProgress
  viewError,       \* state error: <<>> for null, <<kind>> otherwise
  viewExpiresIn    \* state expiresIn: <<>> for '', <<"expired">> or <<[hours, minutes]>>

pdfVars == <<doc, options, pc, i, coverRatio, pages, srcOf, processedCount,
             progress, progressAt, nextUrl>>
detectVars == <<dWidth, dHeight, dThreshold, dResult>>
layoutVars == <<lPages, layout, flatPages, lpc, arranged, flipCall>>
renderVars == <<rPage, rOptions, rCall>>
homeVars == <<hPages, isLoading, loadingProgress, mounted, revokeLog, shown,
              failedPage, runUrlStart, runs>>
callVars == <<sizeCall, pageSizeCall, findCall, pageInfoCall>>
viewVars == <<viewPc, viewResponse, viewNow, viewTicks, viewInterval, viewPages,
              viewIsLoading, viewProgress, viewError, viewExpiresIn>>
vars == <<pdfVars, detectVars, layoutVars, renderVars, homeVars, callVars, viewVars>>

\* -------------------------------------------------------------------------
\* pdfProcessor.detectSpread
\* -------------------------------------------------------------------------
\* detectSpread with isSpread = aspectRatio > threshold (strict comparison)
detectSpreadStrict(width, height, threshold) ==
  LET aspectRatio == NumDiv(Fin(width, 1), Fin(height, 1))
      isSpread == ~NumGeq(threshold, aspectRatio)
  IN [isSpread |-> isSpread,
      aspectRatio |-> aspectRatio,
      recommendedSplit |-> isSpread /\ NumGeq(aspectRatio, Fin(18, 10)),
      confidence |-> Zero]

\* detectSpread(width, height, threshold); threshold is a JavaScript number
detectSpread(width, height, threshold) ==
  LET aspectRatio == NumDiv(Fin(width, 1), Fin(height, 1))
      isSpread == NumGeq(aspectRatio, threshold)
      singlePageRatio == Fin(7, 10)
      confidence ==
        IF isSpread
          THEN NumMin(One, NumDiv(NumSub(aspectRatio, threshold),
                                  NumSub(Two, threshold)))
          ELSE NumMax(Zero,
                 NumMin(One,
                   NumSub(One, NumDiv(NumAbs(NumSub(aspectRatio, singlePageRatio)),
                                      singlePageRatio))))
  IN [isSpread |-> isSpread,
      aspectRatio |-> aspectRatio,
      recommendedSplit |-> isSpread /\ NumGeq(aspectRatio, Fin(18, 10)),
      confidence |-> confidence]

DetectInit ==
  /\ dWidth \in 1..MaxDetectDim
  /\ dHeight \in 1..MaxDetectDim
  /\ dThreshold \in 11..MaxThresholdTenths
  /\ dResult = <<>>

\* one call detectSpread(dWidth, dHeight, dThreshold / 10)
DetectSpread ==
  /\ dResult = <<>>
  /\ dResult' = <<detectSpread(dWidth, dHeight, Tenths(dThreshold))>>
  /\ UNCHANGED <<dWidth, dHeight, dThreshold>>

\* -------------------------------------------------------------------------
\* pdfProcessor.renderPageToCanvas, splitSpreadPage
\* -------------------------------------------------------------------------
RenderPages == [width : 1..MaxRenderW, height : 1..MaxRenderH]
RenderOptions == [dpi : {72, 100, 200}, maxWidth : {4, 9}, maxHeight : {4, 9}]

\* page.getViewport({ scale }): the page size multiplied by scale
Viewport(page, scale) ==
  [width |-> NumMul(Fin(page.width, 1), scale),
   height |-> NumMul(Fin(page.height, 1), scale)]

\* fitRatio taken from the width alone
FitRatioWidthOnly(targetWidth, targetHeight, opts) ==
  NumDiv(Fin(opts.maxWidth, 1), targetWidth)

\* fitRatio = Math.min(maxWidth / targetWidth, maxHeight / targetHeight)
FitRatio(targetWidth, targetHeight, opts) ==
  NumMin(NumDiv(Fin(opts.maxWidth, 1), targetWidth),
         NumDiv(Fin(opts.maxHeight, 1), targetHeight))

\* canvas.width = x, canvas.height = x: the attribute keeps the integer part
CanvasDimension(x) == NumFloor(x).n

\* The sizing of both branches of renderPageToCanvas: (targetWidth,
\* targetHeight) at scale, reduced by fitRatio when a maximum is exceeded.
FitToMax(targetWidth, targetHeight, scale, opts) ==
  IF NumGt(targetWidth, Fin(opts.maxWidth, 1))
       \/ NumGt(targetHeight, Fin(opts.maxHeight, 1))
    THEN LET fitRatio == FitRatio(targetWidth, targetHeight, opts)
         IN [targetWidth |-> NumFloor(NumMul(targetWidth, fitRatio)),
             targetHeight |-> NumFloor(NumMul(targetHeight, fitRatio)),
             scale |-> NumMul(scale, fitRatio),
             fitted |-> TRUE]
    ELSE [targetWidth |-> targetWidth, targetHeight |-> targetHeight,
          scale |-> scale, fitted |-> FALSE]

\* renderPageToCanvas(page, options, cropRegion?); crop is <<>> or <<region>>,
\* a region is [x, y, width, height] of JavaScript numbers.  The result is the
\* canvas size, the scale of the viewport rendered and the translation.
renderPageToCanvas(page, opts, crop) ==
  LET scale == NumDiv(Fin(opts.dpi, 1), Fin(72, 1))
      viewport == Viewport(page, scale)
  IN IF crop # <<>>
       THEN LET fit == FitToMax(NumMul(crop[1].width, scale),
                                NumMul(crop[1].height, scale), scale, opts)
            IN [width |-> CanvasDimension(fit.targetWidth),
                height |-> CanvasDimension(fit.targetHeight),
                scale |-> fit.scale,
                fitted |-> fit.fitted,
                translateX |-> NumSub(Zero, NumMul(crop[1].x, fit.scale)),
                translateY |-> NumSub(Zero, NumMul(crop[1].y, fit.scale))]
       ELSE LET fit == FitToMax(viewport.width, viewport.height, scale, opts)
            IN [width |-> CanvasDimension(fit.targetWidth),
                height |-> CanvasDimension(fit.targetHeight),
                scale |-> fit.scale,
                fitted |-> fit.fitted,
                translateX |-> Zero,
                translateY |-> Zero]

\* the right half cropped with the full page width
RightCropFullWidth(viewport) ==
  [x |-> NumDiv(viewport.width, Two), y |-> Zero,
   width |-> viewport.width, height |-> viewport.height]

\* crop regions of splitSpreadPage; halfWidth = viewport.width / 2
LeftCrop(viewport) ==
  [x |-> Zero, y |-> Zero,
   width |-> NumDiv(viewport.width, Two), height |-> viewport.height]
RightCrop(viewport) ==
  [x |-> NumDiv(viewport.width, Two), y |-> Zero,
   width |-> NumDiv(viewport.width, Two), height |-> viewport.height]

\* splitSpreadPage(page, options)
splitSpreadPage(page, opts) ==
  LET viewport == Viewport(page, One)
  IN [leftCrop |-> LeftCrop(viewport),
      rightCrop |-> RightCrop(viewport),
      left |-> renderPageToCanvas(page, opts, <<LeftCrop(viewport)>>),
      right |-> renderPageToCanvas(page, opts, <<RightCrop(viewport)>>)]

\* crop regions tried besides those of splitSpreadPage: integer rectangles of the page
CropRegions(page) ==
  {[x |-> Fin(x, 1), y |-> Fin(y, 1), width |-> Fin(w, 1), height |-> Fin(h, 1)] :
     x \in 0..1, y \in 0..1, w \in 1..page.width, h \in 1..page.height}

RenderInit ==
  /\ rPage \in RenderPages
  /\ rOptions \in RenderOptions
  /\ rCall = <<>>

\* renderPageToCanvas(page, options) and renderPageToCanvas(page, options, crop)
RenderPageToCanvas ==
  /\ rCall = <<>>
  /\ \E crop \in {<<>>} \cup {<<c>> : c \in CropRegions(rPage)} :
       rCall' = <<[op |-> "render", crop |-> crop,
                   out |-> renderPageToCanvas(rPage, rOptions, crop)]>>
  /\ UNCHANGED <<rPage, rOptions>>

\* splitSpreadPage(page, options)
SplitSpreadPageCall ==
  /\ rCall = <<>>
  /\ rCall' = <<[op |-> "split", crop |-> <<>>,
                 out |-> splitSpreadPage(rPage, rOptions)]>>
  /\ UNCHANGED <<rPage, rOptions>>

\* -------------------------------------------------------------------------
\* pdfProcessor.processPDF
\* -------------------------------------------------------------------------
PageSizes == [width : 1..MaxW, height : 1..MaxH]
PdfThresholds == {12, 15, 20}
Documents == UNION {[1..n -> PageSizes] : n \in 1..MaxPages}
ProcessingOptions == [enableSpreadSplit : BOOLEAN, spreadThreshold : PdfThresholds]

\* viewport.width / viewport.height
AspectRatio(width, height) == NumDiv(Fin(width, 1), Fin(height, 1))

\* isSpread without the options.enableSpreadSplit conjunct
IsSpreadPageIgnoresEnable(opts, cover, current) ==
  \/ NumGeq(current, NumMul(cover, Fin(18, 10)))
  \/ (/\ NumGeq(current, Tenths(opts.spreadThreshold))
      /\ NumGeq(current, NumMul(cover, Fin(15, 10))))

\* isSpread with currentRatio > coverRatio * 1.5 (strict comparison)
IsSpreadPageStrict(opts, cover, current) ==
  opts.enableSpreadSplit /\
    (\/ NumGeq(current, NumMul(cover, Fin(18, 10)))
     \/ (/\ NumGeq(current, Tenths(opts.spreadThreshold))
         /\ ~NumGeq(NumMul(cover, Fin(15, 10)), current)))

\* isSpread by the threshold alone, as getPageInfo judges a page
IsSpreadPageThresholdOnly(opts, cover, current) ==
  opts.enableSpreadSplit /\ NumGeq(current, Tenths(opts.spreadThreshold))

\* const isSpread = options.enableSpreadSplit && (... || (... && ...))
IsSpreadPage(opts, cover, current) ==
  opts.enableSpreadSplit /\
    (\/ NumGeq(current, NumMul(cover, Fin(18, 10)))
     \/ (/\ NumGeq(current, Tenths(opts.spreadThreshold))
         /\ NumGeq(current, NumMul(cover, Fin(15, 10)))))

\* pageNumber: pages.length (0-based numbering)
NextPageNumberZeroBased(ps) == Len(ps)

\* pageNumber: pages.length + 1
NextPageNumber(ps) == Len(ps) + 1

\* onProgress called with the count before the increment
ProgressValueBeforeIncrement(count, total) ==
  NumDiv(Fin(count - 1, 1), Fin(total, 1))

\* processedCount / totalPages
ProgressValue(count, total) == NumDiv(Fin(count, 1), Fin(total, 1))

\* The RenderedPage objects pushed by processPDF.  An absent optional field is
\* modelled as FALSE (isLeftHalf, isRightHalf) or 0 (originalSpreadIndex).
LeftHalfPage(ps, url, idx) ==
  [pageNumber |-> NextPageNumber(ps), imageData |-> url,
   isLeftHalf |-> TRUE, isRightHalf |-> FALSE, originalSpreadIndex |-> idx]
\* the right half pushed with the left half's tag
RightHalfPageMistagged(ps, url, idx) ==
  [pageNumber |-> NextPageNumber(ps), imageData |-> url,
   isLeftHalf |-> TRUE, isRightHalf |-> FALSE, originalSpreadIndex |-> idx]
RightHalfPage(ps, url, idx) ==
  [pageNumber |-> NextPageNumber(ps), imageData |-> url,
   isLeftHalf |-> FALSE, isRightHalf |-> TRUE, originalSpreadIndex |-> idx]
SinglePage(ps, url) ==
  [pageNumber |-> NextPageNumber(ps), imageData |-> url,
   isLeftHalf |-> FALSE, isRightHalf |-> FALSE, originalSpreadIndex |-> 0]

totalPages == Len(doc)

PdfInit ==
  /\ doc \in Documents
  /\ options \in ProcessingOptions
  /\ pc = "start"
  /\ i = 1
  /\ coverRatio = Zero
  /\ pages = <<>>
  /\ srcOf = <<>>
  /\ processedCount = 0
  /\ progress = <<>>
  /\ progressAt = <<>>
  /\ nextUrl = 0

\* const firstPage = await pdf.getPage(1); coverRatio = width / height
GetFirstPage ==
  /\ pc = "start"
  /\ coverRatio' = AspectRatio(doc[1].width, doc[1].height)
  /\ i' = 1
  /\ pc' = "loop"
  /\ UNCHANGED <<doc, options, pages, srcOf, processedCount, progress,
                 progressAt, nextUrl>>

\* loop test i <= totalPages, getPage(i), currentRatio and the isSpread branch
GetPage ==
  /\ pc = "loop"
  /\ i <= totalPages
  /\ pc' = IF IsSpreadPage(options, coverRatio,
                           AspectRatio(doc[i].width, doc[i].height))
             THEN "split" ELSE "single"
  /\ UNCHANGED <<doc, options, i, coverRatio, pages, srcOf, processedCount,
                 progress, progressAt, nextUrl>>

\* const { left, right } = await splitSpreadPage(page, options)
SplitSpreadPage ==
  /\ pc = "split"
  /\ pc' = "pushLeft"
  /\ UNCHANGED <<doc, options, i, coverRatio, pages, srcOf, processedCount,
                 progress, progressAt, nextUrl>>

\* pages.push({ ..., imageData: await canvasToBlobURL(left), isLeftHalf: true, ... })
PushLeft ==
  /\ pc = "pushLeft"
  /\ nextUrl' = nextUrl + 1
  /\ pages' = Append(pages, LeftHalfPage(pages, nextUrl + 1, i))
  /\ srcOf' = Append(srcOf, i)
  /\ pc' = "pushRight"
  /\ UNCHANGED <<doc, options, i, coverRatio, processedCount, progress, progressAt>>

\* pages.push({ ..., imageData: await canvasToBlobURL(right), isRightHalf: true, ... })
PushRight ==
  /\ pc = "pushRight"
  /\ nextUrl' = nextUrl + 1
  /\ pages' = Append(pages, RightHalfPage(pages, nextUrl + 1, i))
  /\ srcOf' = Append(srcOf, i)
  /\ pc' = "progress"
  /\ UNCHANGED <<doc, options, i, coverRatio, processedCount, progress, progressAt>>

\* const canvas = await renderPageToCanvas(page, options); pages.push({ ... })
PushSingle ==
  /\ pc = "single"
  /\ nextUrl' = nextUrl + 1
  /\ pages' = Append(pages, SinglePage(pages, nextUrl + 1))
  /\ srcOf' = Append(srcOf, i)
  /\ pc' = "progress"
  /\ UNCHANGED <<doc, options, i, coverRatio, processedCount, progress, progressAt>>

\* processedCount++; onProgress?.(processedCount / totalPages); i++
OnProgress ==
  /\ pc = "progress"
  /\ processedCount' = processedCount + 1
  /\ progress' = Append(progress, ProgressValue(processedCount + 1, totalPages))
  /\ progressAt' = Append(progressAt, Len(pages))
  /\ i' = i + 1
  /\ pc' = "loop"
  /\ UNCHANGED <<doc, options, coverRatio, pages, srcOf, nextUrl>>

\* loop exit; return pages
Return ==
  /\ pc = "loop"
  /\ i > totalPages
  /\ pc' = "done"
  /\ UNCHANGED <<doc, options, i, coverRatio, pages, srcOf, processedCount,
                 progress, progressAt, nextUrl>>

PdfNext ==
  \/ GetFirstPage
  \/ GetPage
  \/ SplitSpreadPage
  \/ PushLeft
  \/ PushRight
  \/ PushSingle
  \/ OnProgress
  \/ Return

\* -------------------------------------------------------------------------
\* pageLayoutEngine.createBookLayout, flattenForPageFlip
\* -------------------------------------------------------------------------
\* RenderedPage objects of the lists given to the layout engine
LayoutPage(n) ==
  [pageNumber |-> n, imageData |-> n,
   isLeftHalf |-> FALSE, isRightHalf |-> FALSE, originalSpreadIndex |-> 0]
LayoutPageLists ==
  UNION {[1..n -> {LayoutPage(m) : m \in 1..MaxPageNo}] : n \in 0..MaxLayoutPages}

\* pages[idx + 1] || null (index off by one)
PageOrNullOffByOne(ps, idx) == IF idx + 2 <= Len(ps) THEN <<ps[idx + 2]>> ELSE <<>>

\* pages[idx] || null, idx 0-based: <<page>> or <<>> for null
PageOrNull(ps, idx) == IF idx + 1 <= Len(ps) THEN <<ps[idx + 1]>> ELSE <<>>

\* the loop with isLastSpread: i + 2 > pages.length
RECURSIVE BuildSpreadsLastFlagStrict(_, _, _)
BuildSpreadsLastFlagStrict(ps, idx, spreads) ==
  IF idx < Len(ps)
    THEN BuildSpreadsLastFlagStrict(ps, idx + 2,
           Append(spreads,
             [id |-> Len(spreads),
              left |-> <<ps[idx + 1]>>,
              right |-> PageOrNull(ps, idx + 1),
              isCoverSpread |-> idx = 0,
              isLastSpread |-> idx + 2 > Len(ps)]))
    ELSE spreads

\* for (let i = 0; i < pages.length; i += 2) { spreads.push({...}) }
RECURSIVE BuildSpreads(_, _, _)
BuildSpreads(ps, idx, spreads) ==
  IF idx < Len(ps)
    THEN BuildSpreads(ps, idx + 2,
           Append(spreads,
             [id |-> Len(spreads),
              left |-> <<ps[idx + 1]>>,
              right |-> PageOrNull(ps, idx + 1),
              isCoverSpread |-> idx = 0,
              isLastSpread |-> idx + 2 >= Len(ps)]))
    ELSE spreads

createBookLayout(ps) ==
  IF Len(ps) = 0
    THEN [spreads |-> <<>>, totalSpreads |-> 0, totalPages |-> 0,
          hasOddPages |-> FALSE]
  ELSE IF Len(ps) = 1
    THEN [spreads |-> <<[id |-> 0, left |-> <<ps[1]>>, right |-> <<>>,
                         isCoverSpread |-> TRUE, isLastSpread |-> TRUE]>>,
          totalSpreads |-> 1, totalPages |-> 1, hasOddPages |-> TRUE]
  ELSE LET spreads == BuildSpreads(ps, 0, <<>>)
       IN [spreads |-> spreads, totalSpreads |-> Len(spreads),
           totalPages |-> Len(ps), hasOddPages |-> Len(ps) % 2 = 1]

\* for (const spread of layout.spreads) { push(spread.left); push(spread.right) }
RECURSIVE FlattenFrom(_, _, _)
FlattenFrom(spreads, k, flat) ==
  IF k <= Len(spreads)
    THEN FlattenFrom(spreads, k + 1,
           Append(Append(flat, spreads[k].left), spreads[k].right))
    ELSE flat

\* right pushed before left
RECURSIVE FlattenSwappedFrom(_, _, _)
FlattenSwappedFrom(spreads, k, flat) ==
  IF k <= Len(spreads)
    THEN FlattenSwappedFrom(spreads, k + 1,
           Append(Append(flat, spreads[k].right), spreads[k].left))
    ELSE flat

flattenForPageFlipSwapped(lay) == FlattenSwappedFrom(lay.spreads, 1, <<>>)

flattenForPageFlip(lay) == FlattenFrom(lay.spreads, 1, <<>>)

LayoutInit ==
  /\ lPages \in LayoutPageLists
  /\ layout = <<>>
  /\ flatPages = <<>>
  /\ lpc = "init"
  /\ arranged = <<>>
  /\ flipCall = <<>>

\* const bookLayout = createBookLayout(pages)
CreateBookLayout ==
  /\ lpc = "init"
  /\ layout' = <<createBookLayout(lPages)>>
  /\ lpc' = "built"
  /\ UNCHANGED <<lPages, flatPages, arranged, flipCall>>

\* flattenForPageFlip(bookLayout)
FlattenForPageFlip ==
  /\ lpc = "built"
  /\ flatPages' = flattenForPageFlip(layout[1])
  /\ lpc' = "flat"
  /\ UNCHANGED <<lPages, layout, arranged, flipCall>>

\* -------------------------------------------------------------------------
\* pdfProcessor.createCoversFacingLayout, arrangeForBookViewer
\* -------------------------------------------------------------------------
\* pages.slice(1, -1)
SliceInner(ps) == IF Len(ps) <= 2 THEN <<>> ELSE SubSeq(ps, 2, Len(ps) - 1)

\* innerPages = pages.slice(1): the back cover stays among the inner pages
createCoversFacingLayoutKeepsLast(ps) ==
  IF Len(ps) < 2
    THEN [threw |-> TRUE, value |-> <<>>]
    ELSE [threw |-> FALSE,
          value |-> <<[frontCover |-> ps[1],
                       backCover |-> ps[Len(ps)],
                       innerPages |-> SubSeq(ps, 2, Len(ps)),
                       totalPhysicalPages |-> Len(ps)]>>]

\* createCoversFacingLayout: throws (threw = TRUE) on fewer than 2 pages
createCoversFacingLayout(ps) ==
  IF Len(ps) < 2
    THEN [threw |-> TRUE, value |-> <<>>]
    ELSE [threw |-> FALSE,
          value |-> <<[frontCover |-> ps[1],
                       backCover |-> ps[Len(ps)],
                       innerPages |-> SliceInner(ps),
                       totalPhysicalPages |-> Len(ps)]>>]

\* arrangeForBookViewer: the outcome is an exception (threw) or the returned list
arrangeForBookViewer(ps) ==
  IF Len(ps) < 2
    THEN [threw |-> FALSE, value |-> ps]
    ELSE LET made == createCoversFacingLayout(ps)
         IN IF made.threw
              THEN [threw |-> TRUE, value |-> <<>>]
              ELSE [threw |-> FALSE,
                    value |-> <<made.value[1].backCover, made.value[1].frontCover>>
                                \o made.value[1].innerPages]

\* one call arrangeForBookViewer(pages)
ArrangeForBookViewer ==
  /\ lpc = "init"
  /\ arranged = <<>>
  /\ arranged' = <<arrangeForBookViewer(lPages)>>
  /\ UNCHANGED <<lPages, layout, flatPages, lpc, flipCall>>

\* -------------------------------------------------------------------------
\* pageLayoutEngine.getSpreadAtIndex, calculateFlipDirection,
\* calculateFlipAnimation
\* -------------------------------------------------------------------------
\* the spread indices tried: one below and one above every layout of the bounds
FlipIndices == -1..((MaxLayoutPages + 1) \div 2)

\* the upper bound tested as index >= length - 1: the last pair is refused
getSpreadAtIndexRefusesLast(lay, index) ==
  IF index < 0 \/ index >= Len(lay.spreads) - 1
    THEN <<>>
    ELSE <<lay.spreads[index + 1]>>

\* getSpreadAtIndex: <<>> for null, <<spread>> otherwise (index 0-based)
getSpreadAtIndex(lay, index) ==
  IF index < 0 \/ index >= Len(lay.spreads)
    THEN <<>>
    ELSE <<lay.spreads[index + 1]>>

\* targetSpread >= currentSpread ? 'forward' : 'backward'
calculateFlipDirectionInclusive(currentSpread, targetSpread) ==
  IF targetSpread >= currentSpread THEN "forward" ELSE "backward"

calculateFlipDirection(currentSpread, targetSpread) ==
  IF targetSpread > currentSpread THEN "forward" ELSE "backward"

\* the page turned by a forward flip taken from the target pair
calculateFlipAnimationTurnsTarget(lay, fromIndex, toIndex) ==
  LET fromSpread == getSpreadAtIndex(lay, fromIndex)
      toSpread == getSpreadAtIndex(lay, toIndex)
      direction == calculateFlipDirection(fromIndex, toIndex)
  IN IF fromSpread = <<>> \/ toSpread = <<>>
       THEN <<>>
       ELSE <<[fromSpread |-> fromSpread[1],
               toSpread |-> toSpread[1],
               direction |-> direction,
               flippingPage |-> IF direction = "forward"
                                  THEN toSpread[1].right
                                  ELSE fromSpread[1].left]>>

\* calculateFlipAnimation: <<>> for null, <<FlipAnimationInfo>> otherwise
calculateFlipAnimation(lay, fromIndex, toIndex) ==
  LET fromSpread == getSpreadAtIndex(lay, fromIndex)
      toSpread == getSpreadAtIndex(lay, toIndex)
      direction == calculateFlipDirection(fromIndex, toIndex)
  IN IF fromSpread = <<>> \/ toSpread = <<>>
       THEN <<>>
       ELSE <<[fromSpread |-> fromSpread[1],
               toSpread |-> toSpread[1],
               direction |-> direction,
               flippingPage |-> IF direction = "forward"
                                  THEN fromSpread[1].right
                                  ELSE fromSpread[1].left]>>

\* one call calculateFlipAnimation(layout, from, to)
CalculateFlipAnimation ==
  /\ lpc = "built"
  /\ flipCall = <<>>
  /\ \E from \in FlipIndices, to \in FlipIndices :
       flipCall' = <<[from |-> from, to |-> to,
                      result |-> calculateFlipAnimation(layout[1], from, to)]>>
  /\ UNCHANGED <<lPages, layout, flatPages, lpc, arranged>>

\* -------------------------------------------------------------------------
\* pageLayoutEngine.findSpreadByPageNumber
\* -------------------------------------------------------------------------
\* only spread.left?.pageNumber === pageNumber is tested
SpreadHasPageNumberLeftOnly(spread, pageNumber) ==
  spread.left # <<>> /\ spread.left[1].pageNumber = pageNumber

\* spread.left?.pageNumber === pageNumber || spread.right?.pageNumber === pageNumber
SpreadHasPageNumber(spread, pageNumber) ==
  \/ spread.left # <<>> /\ spread.left[1].pageNumber = pageNumber
  \/ spread.right # <<>> /\ spread.right[1].pageNumber = pageNumber

\* for (let i = 0; i < layout.spreads.length; i++) { ... return i } return -1
RECURSIVE FindSpreadFrom(_, _, _)
FindSpreadFrom(spreads, idx, pageNumber) ==
  IF idx >= Len(spreads) THEN -1
  ELSE IF SpreadHasPageNumber(spreads[idx + 1], pageNumber) THEN idx
  ELSE FindSpreadFrom(spreads, idx + 1, pageNumber)

findSpreadByPageNumber(lay, pageNumber) == FindSpreadFrom(lay.spreads, 0, pageNumber)

\* one call findSpreadByPageNumber(layout, p), p from one below to one above
\* the page numbers of the bounds
FindSpreadByPageNumber ==
  /\ lpc = "built"
  /\ flipCall = <<>>
  /\ \E p \in 0..(MaxPageNo + 1) :
       findCall' = <<[pageNumber |-> p,
                      result |-> findSpreadByPageNumber(layout[1], p)]>>
  /\ lpc' = "found"
  /\ UNCHANGED <<lPages, layout, flatPages, arranged, flipCall,
                 sizeCall, pageSizeCall, pageInfoCall>>

\* -------------------------------------------------------------------------
\* pdfProcessor.getPageInfo, and BookViewer laying out the processed pages
\* -------------------------------------------------------------------------
\* getPageInfo(pdf, pageNumber, options)
getPageInfo(pdf, pageNumber, opts) ==
  LET viewport == pdf[pageNumber]
      spreadResult == detectSpread(viewport.width, viewport.height,
                                   Tenths(opts.spreadThreshold))
  IN [pageNumber |-> pageNumber,
      width |-> viewport.width,
      height |-> viewport.height,
      aspectRatio |-> spreadResult.aspectRatio,
      isSpread |-> spreadResult.isSpread /\ opts.enableSpreadSplit,
      originalIndex |-> pageNumber - 1]

\* one call getPageInfo(pdf, k, options) on the document and options that
\* processPDF was run on
GetPageInfo ==
  /\ pc = "done"
  /\ pageInfoCall = <<>>
  /\ \E k \in 1..Len(doc) :
       pageInfoCall' = <<[pageNumber |-> k, info |-> getPageInfo(doc, k, options)]>>
  /\ UNCHANGED <<sizeCall, pageSizeCall, findCall>>

\* BookViewer receives the list processPDF returned (Home and ViewPage pass
\* their pages state as it is): const bookLayout = createBookLayout(pages)
ViewerCreateBookLayout ==
  /\ pc = "done"
  /\ lpc = "idle"
  /\ lPages' = pages
  /\ layout' = <<createBookLayout(pages)>>
  /\ lpc' = "built"
  /\ UNCHANGED <<flatPages, arranged, flipCall>>

\* -------------------------------------------------------------------------
\* pageLayoutEngine.calculateResponsivePageSize and the pageSize of BookViewer
\* -------------------------------------------------------------------------
\* Math.min(widthScale, heightScale): the scale may exceed 1
ResponsiveScaleUncapped(widthScale, heightScale) == NumMin(widthScale, heightScale)

\* Math.min(widthScale, heightScale, 1)
ResponsiveScale(widthScale, heightScale) ==
  NumMin(NumMin(widthScale, heightScale), One)

calculateResponsivePageSize(containerWidth, containerHeight, originalPageWidth, originalPageHeight, isSpreadView, padding) ==
  LET availableWidth == NumSub(Fin(containerWidth, 1), NumMul(Fin(padding, 1), Two))
      availableHeight == NumSub(Fin(containerHeight, 1), NumMul(Fin(padding, 1), Two))
      pageContainerWidth == IF isSpreadView THEN NumDiv(availableWidth, Two)
                                            ELSE availableWidth
      widthScale == NumDiv(pageContainerWidth, Fin(originalPageWidth, 1))
      heightScale == NumDiv(availableHeight, Fin(originalPageHeight, 1))
      scale == ResponsiveScale(widthScale, heightScale)
  IN [width |-> NumFloor(NumMul(Fin(originalPageWidth, 1), scale)).n,
      height |-> NumFloor(NumMul(Fin(originalPageHeight, 1), scale)).n,
      scale |-> scale]

\* padding and minimum size of BookViewer, in px
ViewerPadding == 100
ViewerMinSize == 300

\* the candidate chosen by pageHeightByWidth >= maxPageHeightByHeight
WidthBoundFitsReversed(pageHeightByWidth, maxPageHeightByHeight) ==
  NumGeq(pageHeightByWidth, maxPageHeightByHeight)

\* pageHeightByWidth <= maxPageHeightByHeight
WidthBoundFits(pageHeightByWidth, maxPageHeightByHeight) ==
  NumGeq(maxPageHeightByHeight, pageHeightByWidth)

\* the useMemo computing pageSize: pagesLength = pages.length, firstWidth and
\* firstHeight = pages[0].width, pages[0].height, dims = the measured container
pageSize(pagesLength, firstWidth, firstHeight, dimWidth, dimHeight) ==
  IF pagesLength = 0 THEN [width |-> 500, height |-> 700]
  ELSE
    LET bookAspectRatio == NumDiv(Fin(firstWidth, 1), Fin(firstHeight, 1))
    IN IF dimWidth = 0 \/ dimHeight = 0
         THEN [width |-> NumFloor(NumMul(Fin(600, 1), bookAspectRatio)).n,
               height |-> 600]
         ELSE
           LET availableWidth == Fin(dimWidth - ViewerPadding, 1)
               availableHeight == Fin(dimHeight - ViewerPadding, 1)
               maxPageWidthByWidth == NumDiv(availableWidth, Two)
               pageHeightByWidth == NumDiv(maxPageWidthByWidth, bookAspectRatio)
               maxPageHeightByHeight == availableHeight
               pageWidthByHeight == NumMul(maxPageHeightByHeight, bookAspectRatio)
               byWidth == WidthBoundFits(pageHeightByWidth, maxPageHeightByHeight)
               finalWidth == NumMax(IF byWidth THEN maxPageWidthByWidth
                                               ELSE pageWidthByHeight,
                                    Fin(ViewerMinSize, 1))
               finalHeight == NumMax(IF byWidth THEN pageHeightByWidth
                                                ELSE maxPageHeightByHeight,
                                     Fin(ViewerMinSize, 1))
           IN [width |-> NumFloor(finalWidth).n,
               height |-> NumFloor(finalHeight).n]

\* one call calculateResponsivePageSize(...) on page sizes, containers and
\* paddings of the bounds
CalculateResponsivePageSize ==
  /\ sizeCall = <<>>
  /\ pageSizeCall = <<>>
  /\ \E cw \in 0..MaxContainer, ch \in 0..MaxContainer,
        pw \in 1..MaxSizerPage, ph \in 1..MaxSizerPage,
        spread \in BOOLEAN, pad \in -1..MaxPadding :
       sizeCall' = <<[containerWidth |-> cw, containerHeight |-> ch,
                      originalPageWidth |-> pw, originalPageHeight |-> ph,
                      isSpreadView |-> spread, padding |-> pad,
                      out |-> calculateResponsivePageSize(cw, ch, pw, ph, spread, pad)]>>
  /\ UNCHANGED <<pageSizeCall, findCall, pageInfoCall>>

\* one evaluation of pageSize in BookViewer (pages empty or not, container
\* unmeasured or measured)
BookViewerPageSize ==
  /\ sizeCall = <<>>
  /\ pageSizeCall = <<>>
  /\ \E n \in 0..1, fw \in 1..MaxSizerPage, fh \in 1..MaxSizerPage,
        dw \in 0..MaxViewport, dh \in 0..MaxViewport :
       pageSizeCall' = <<[pagesLength |-> n, firstWidth |-> fw, firstHeight |-> fh,
                          dimWidth |-> 100 * dw, dimHeight |-> 100 * dh,
                          out |-> pageSize(n, fw, fh, 100 * dw, 100 * dh)]>>
  /\ UNCHANGED <<sizeCall, findCall, pageInfoCall>>

\* -------------------------------------------------------------------------
\* Home (page component): pages state, handleFileSelect, handleReset, the
\* useEffect cleanup, and the processPDF run it awaits
\* -------------------------------------------------------------------------
HomePageSizes == [width : 1..MaxHomeW, height : {1}]
HomeDocuments == UNION {[1..n -> HomePageSizes] : n \in 1..MaxHomePages}

\* cleanupBlobURLs(pages): one URL.revokeObjectURL call per page, in order
cleanupBlobURLs(log, ps) == log \o [k \in 1..Len(ps) |-> ps[k].imageData]

\* the cleanup returned by useEffect(..., [pages]), run with the pages of the
\* render that set it up: when pages is replaced and when Home unmounts
EffectCleanup(log, ps) == IF Len(ps) > 0 THEN cleanupBlobURLs(log, ps) ELSE log

BlobURLs(ps) == {ps[k].imageData : k \in 1..Len(ps)}

HomeInit ==
  /\ doc = <<>>
  /\ options = [enableSpreadSplit |-> TRUE, spreadThreshold |-> 12]
  /\ pc = "idle"
  /\ i = 1
  /\ coverRatio = Zero
  /\ pages = <<>>
  /\ srcOf = <<>>
  /\ processedCount = 0
  /\ progress = <<>>
  /\ progressAt = <<>>
  /\ nextUrl = 0
  /\ hPages = <<>>
  /\ isLoading = FALSE
  /\ loadingProgress = Zero
  /\ mounted = TRUE
  /\ revokeLog = <<>>
  /\ shown = {}
  /\ failedPage = 0
  /\ runUrlStart = 0
  /\ runs = 0

\* the drop zone offered whenever no pages are displayed, loading or not
UploaderAcceptsFileWhileLoading == Len(hPages) = 0

\* PDFUploader, the only caller of handleFileSelect, is rendered while
\* pages.length === 0 and renders only the progress view while isLoading
UploaderAcceptsFile == Len(hPages) = 0 /\ ~isLoading

\* handleFileSelect up to its first await
HandleFileSelect ==
  /\ mounted
  /\ UploaderAcceptsFile
  /\ runs < MaxRuns
  /\ runs' = runs + 1
  /\ isLoading' = TRUE
  /\ loadingProgress' = Zero
  /\ revokeLog' = IF Len(hPages) > 0 THEN cleanupBlobURLs(revokeLog, hPages)
                                     ELSE revokeLog
  /\ pc' = "loading"
  /\ failedPage' = 0
  /\ runUrlStart' = nextUrl
  /\ UNCHANGED <<doc, options, i, coverRatio, pages, srcOf, processedCount,
                 progress, progressAt, nextUrl, hPages, mounted, shown>>

\* file.arrayBuffer(), loadPDFDocument succeed; processPDF is entered
LoadDocument ==
  /\ pc = "loading"
  /\ doc' \in HomeDocuments
  /\ pc' = "start"
  /\ i' = 1
  /\ coverRatio' = Zero
  /\ pages' = <<>>
  /\ srcOf' = <<>>
  /\ processedCount' = 0
  /\ progress' = <<>>
  /\ progressAt' = <<>>
  /\ UNCHANGED <<options, nextUrl, homeVars>>

\* file.arrayBuffer() or loadPDFDocument rejects
LoadFails ==
  /\ pc = "loading"
  /\ pc' = "failed"
  /\ UNCHANGED <<doc, options, i, coverRatio, pages, srcOf, processedCount,
                 progress, progressAt, nextUrl, homeVars>>

\* a failed page handled by skipping it: the loop goes on with the next page
PageFailsSkipsPage ==
  /\ pc \in {"split", "pushLeft", "pushRight", "single"}
  /\ pc' = "progress"
  /\ failedPage' = i
  /\ UNCHANGED <<doc, options, i, coverRatio, pages, srcOf, processedCount,
                 progress, progressAt, nextUrl, hPages, isLoading,
                 loadingProgress, mounted, revokeLog, shown, runUrlStart, runs>>

\* rasterizing or encoding source page i rejects (splitSpreadPage,
\* renderPageToCanvas or canvasToBlobURL): processPDF rejects, nothing catches
\* inside it
PageFails ==
  /\ pc \in {"split", "pushLeft", "pushRight", "single"}
  /\ pc' = "failed"
  /\ failedPage' = i
  /\ UNCHANGED <<doc, options, i, coverRatio, pages, srcOf, processedCount,
                 progress, progressAt, nextUrl, hPages, isLoading,
                 loadingProgress, mounted, revokeLog, shown, runUrlStart, runs>>

\* the onProgress callback of Home: setLoadingProgress(progress)
HomeOnProgress ==
  /\ OnProgress
  /\ loadingProgress' = IF mounted THEN ProgressValue(processedCount + 1, totalPages)
                                   ELSE loadingProgress
  /\ UNCHANGED <<hPages, isLoading, mounted, revokeLog, shown, failedPage,
                 runUrlStart, runs>>

\* processPDF resolved: setPages(renderedPages); setCurrentPage(0); finally
\* setIsLoading(false).  Replacing pages runs the effect cleanup of the old
\* pages.  State updates of an unmounted component are dropped.
HomeRunResolves ==
  /\ pc = "done"
  /\ pc' = "idle"
  /\ IF mounted
       THEN /\ hPages' = pages
            /\ revokeLog' = EffectCleanup(revokeLog, hPages)
            /\ shown' = shown \cup BlobURLs(pages)
            /\ isLoading' = FALSE
       ELSE UNCHANGED <<hPages, revokeLog, shown, isLoading>>
  /\ UNCHANGED <<doc, options, i, coverRatio, pages, srcOf, processedCount,
                 progress, progressAt, nextUrl, loadingProgress, mounted,
                 failedPage, runUrlStart, runs>>

\* processPDF (or the load) rejected: catch { console.error; alert } finally
\* setIsLoading(false)
HomeRunRejects ==
  /\ pc = "failed"
  /\ pc' = "idle"
  /\ isLoading' = IF mounted THEN FALSE ELSE isLoading
  /\ UNCHANGED <<doc, options, i, coverRatio, pages, srcOf, processedCount,
                 progress, progressAt, nextUrl, hPages, loadingProgress, mounted,
                 revokeLog, shown, failedPage, runUrlStart, runs>>

\* handleReset (ViewerControls is rendered while pages.length > 0), followed
\* by the effect cleanup that setPages([]) triggers for the old pages
HandleReset ==
  /\ mounted
  /\ Len(hPages) > 0
  /\ revokeLog' = EffectCleanup(
                    IF Len(hPages) > 0 THEN cleanupBlobURLs(revokeLog, hPages)
                                       ELSE revokeLog,
                    hPages)
  /\ hPages' = <<>>
  /\ UNCHANGED <<pdfVars, isLoading, loadingProgress, mounted, shown,
                 failedPage, runUrlStart, runs>>

\* Home unmounts: the effect cleanup runs with the current pages
Unmount ==
  /\ mounted
  /\ mounted' = FALSE
  /\ revokeLog' = EffectCleanup(revokeLog, hPages)
  /\ UNCHANGED <<pdfVars, hPages, isLoading, loadingProgress, shown,
                 failedPage, runUrlStart, runs>>

HomeNext ==
  \/ HandleFileSelect
  \/ LoadDocument
  \/ LoadFails
  \/ GetFirstPage /\ UNCHANGED homeVars
  \/ GetPage /\ UNCHANGED homeVars
  \/ SplitSpreadPage /\ UNCHANGED homeVars
  \/ PushLeft /\ UNCHANGED homeVars
  \/ PushRight /\ UNCHANGED homeVars
  \/ PushSingle /\ UNCHANGED homeVars
  \/ PageFails
  \/ HomeOnProgress
  \/ Return /\ UNCHANGED homeVars
  \/ HomeRunResolves
  \/ HomeRunRejects
  \/ HandleReset
  \/ Unmount

\* -------------------------------------------------------------------------
\* The shared-link view: GET /api/pdf/{id} and ViewPage.loadPDF
\* -------------------------------------------------------------------------
EXPIRY_HOURS == 3
\* ages (minutes since upload) at which the PDF is requested
RequestAges ==
  {0} \cup ((EXPIRY_HOURS * 60 - MaxLead)..(EXPIRY_HOURS * 60 + 1))

\* now > expiresAt
IsExpired(now, expiresAt) == now > expiresAt

\* GET: blobExists = the list has the file, listFails = list() rejects,
\* age = now - uploadedAt in minutes (uploadedAt is minute 0)
GET(blobExists, listFails, age) ==
  LET expiresAt == 0 + EXPIRY_HOURS * 60
  IN IF listFails
       THEN [status |-> 500, ok |-> FALSE, hasExpiresAt |-> FALSE, expiresAt |-> 0]
     ELSE IF ~blobExists
       THEN [status |-> 404, ok |-> FALSE, hasExpiresAt |-> FALSE, expiresAt |-> 0]
     ELSE IF IsExpired(age, expiresAt)
       THEN [status |-> 404, ok |-> FALSE, hasExpiresAt |-> FALSE, expiresAt |-> 0]
     ELSE [status |-> 200, ok |-> TRUE, hasExpiresAt |-> TRUE, expiresAt |-> expiresAt]

\* a 200 answer whose body has no expiresAt, which loadPDF provides for with
\* if (data.expiresAt)
BareResponse == [status |-> 200, ok |-> TRUE, hasExpiresAt |-> FALSE, expiresAt |-> 0]

\* updateExpiry at clock now: the new values of expiresIn and error
updateExpiry(now, expiresAt, error) ==
  LET diff == expiresAt - now
  IN IF diff <= 0
       THEN [expiresIn |-> <<"expired">>, error |-> <<"expired">>]
       ELSE [expiresIn |-> <<[hours |-> diff \div 60, minutes |-> diff % 60]>>,
             error |-> error]

ViewInit ==
  /\ doc = <<>>
  /\ options = [enableSpreadSplit |-> TRUE, spreadThreshold |-> 12]
  /\ pc = "idle"
  /\ i = 1
  /\ coverRatio = Zero
  /\ pages = <<>>
  /\ srcOf = <<>>
  /\ processedCount = 0
  /\ progress = <<>>
  /\ progressAt = <<>>
  /\ nextUrl = 0
  /\ viewPc = "start"
  /\ viewResponse = <<>>
  /\ viewNow = 0
  /\ viewTicks = 0
  /\ viewInterval = FALSE
  /\ viewPages = <<>>
  /\ viewIsLoading = TRUE
  /\ viewProgress = Zero
  /\ viewError = <<>>
  /\ viewExpiresIn = <<>>

\* const response = await fetch(`/api/pdf/${id}`); if (!response.ok) {...}
ViewFetch ==
  /\ viewPc = "start"
  /\ \E blobExists \in BOOLEAN, listFails \in BOOLEAN, age \in RequestAges,
        fromGet \in BOOLEAN :
       LET response == IF fromGet THEN GET(blobExists, listFails, age)
                                  ELSE BareResponse
       IN /\ viewResponse' = <<response>>
          /\ viewNow' = age
          /\ IF ~response.ok
               THEN /\ viewError' = IF response.status = 404 THEN <<"notFound">>
                                                             ELSE <<"loadError">>
                    /\ viewIsLoading' = FALSE
                    /\ viewPc' = "ended"
               ELSE /\ viewPc' = "json"
                    /\ UNCHANGED <<viewError, viewIsLoading>>
  /\ UNCHANGED <<pdfVars, viewTicks, viewInterval, viewPages, viewProgress,
                 viewExpiresIn>>

\* an await of loadPDF before processPDF rejects (fetch, response.json,
\* arrayBuffer, loadPDFDocument): catch { setError } finally { setIsLoading(false) }
ViewAwaitFails ==
  /\ viewPc \in {"start", "json", "download"}
  /\ viewError' = <<"loadError">>
  /\ viewIsLoading' = FALSE
  /\ viewPc' = "ended"
  /\ UNCHANGED <<pdfVars, viewResponse, viewNow, viewTicks, viewInterval,
                 viewPages, viewProgress, viewExpiresIn>>

\* const data = await response.json(); if (data.expiresAt) { updateExpiry();
\* setInterval(updateExpiry, 60000); return () => clearInterval(interval); }
\* the return leaves loadPDF through finally
ViewJson ==
  /\ viewPc = "json"
  /\ \E delay \in 0..MaxDelay :
       /\ viewNow' = viewNow + delay
       /\ IF viewResponse[1].hasExpiresAt
            THEN LET u == updateExpiry(viewNow + delay, viewResponse[1].expiresAt,
                                       viewError)
                 IN /\ viewExpiresIn' = u.expiresIn
                    /\ viewError' = u.error
                    /\ viewInterval' = TRUE
                    /\ viewIsLoading' = FALSE
                    /\ viewPc' = "ended"
            ELSE /\ viewPc' = "download"
                 /\ UNCHANGED <<viewExpiresIn, viewError, viewInterval, viewIsLoading>>
  /\ UNCHANGED <<pdfVars, viewResponse, viewTicks, viewPages, viewProgress>>

\* fetch(data.url), arrayBuffer, loadPDFDocument succeed; processPDF is entered
ViewDownload ==
  /\ viewPc = "download"
  /\ viewPc' = "process"
  /\ doc' \in HomeDocuments
  /\ pc' = "start"
  /\ i' = 1
  /\ coverRatio' = Zero
  /\ pages' = <<>>
  /\ srcOf' = <<>>
  /\ processedCount' = 0
  /\ progress' = <<>>
  /\ progressAt' = <<>>
  /\ UNCHANGED <<options, nextUrl, viewResponse, viewNow, viewTicks, viewInterval,
                 viewPages, viewIsLoading, viewProgress, viewError, viewExpiresIn>>

\* the onProgress callback of ViewPage: setLoadingProgress(progress)
ViewOnProgress ==
  /\ OnProgress
  /\ viewProgress' = ProgressValue(processedCount + 1, totalPages)
  /\ UNCHANGED <<viewPc, viewResponse, viewNow, viewTicks, viewInterval,
                 viewPages, viewIsLoading, viewError, viewExpiresIn>>

\* a page await of processPDF rejects: catch { setError } finally
ViewPageFails ==
  /\ pc \in {"split", "pushLeft", "pushRight", "single"}
  /\ pc' = "failed"
  /\ viewError' = <<"loadError">>
  /\ viewIsLoading' = FALSE
  /\ viewPc' = "ended"
  /\ UNCHANGED <<doc, options, i, coverRatio, pages, srcOf, processedCount,
                 progress, progressAt, nextUrl, viewResponse, viewNow, viewTicks,
                 viewInterval, viewPages, viewProgress, viewExpiresIn>>

\* processPDF resolved: setPages(renderedPages); finally setIsLoading(false)
ViewResolves ==
  /\ pc = "done"
  /\ pc' = "idle"
  /\ viewPages' = pages
  /\ viewIsLoading' = FALSE
  /\ viewPc' = "ended"
  /\ UNCHANGED <<doc, options, i, coverRatio, pages, srcOf, processedCount,
                 progress, progressAt, nextUrl, viewResponse, viewNow, viewTicks,
                 viewInterval, viewProgress, viewError, viewExpiresIn>>

\* the interval fires after 60000 ms: updateExpiry()
ViewTick ==
  /\ viewInterval
  /\ viewTicks < MaxTicks
  /\ viewTicks' = viewTicks + 1
  /\ viewNow' = viewNow + 1
  /\ LET u == updateExpiry(viewNow + 1, viewResponse[1].expiresAt, viewError)
     IN /\ viewExpiresIn' = u.expiresIn
        /\ viewError' = u.error
  /\ UNCHANGED <<pdfVars, viewPc, viewResponse, viewInterval, viewPages,
                 viewIsLoading, viewProgress>>

ViewNext ==
  \/ ViewFetch
  \/ ViewAwaitFails
  \/ ViewJson
  \/ ViewDownload
  \/ GetFirstPage /\ UNCHANGED viewVars
  \/ GetPage /\ UNCHANGED viewVars
  \/ SplitSpreadPage /\ UNCHANGED viewVars
  \/ PushLeft /\ UNCHANGED viewVars
  \/ PushRight /\ UNCHANGED viewVars
  \/ PushSingle /\ UNCHANGED viewVars
  \/ ViewPageFails
  \/ ViewOnProgress
  \/ Return /\ UNCHANGED viewVars
  \/ ViewResolves
  \/ ViewTick

PdfIdle ==
  /\ doc = <<>>
  /\ options = [enableSpreadSplit |-> TRUE, spreadThreshold |-> 12]
  /\ pc = "idle"
  /\ i = 1
  /\ coverRatio = Zero
  /\ pages = <<>>
  /\ srcOf = <<>>
  /\ processedCount = 0
  /\ progress = <<>>
  /\ progressAt = <<>>
  /\ nextUrl = 0
DetectIdle ==
  /\ dWidth = 1
  /\ dHeight = 1
  /\ dThreshold = 12
  /\ dResult = <<>>
HomeIdle ==
  /\ hPages = <<>>
  /\ isLoading = FALSE
  /\ loadingProgress = Zero
  /\ mounted = FALSE
  /\ revokeLog = <<>>
  /\ shown = {}
  /\ failedPage = 0
  /\ runUrlStart = 0
  /\ runs = 0
CallIdle ==
  /\ sizeCall = <<>>
  /\ pageSizeCall = <<>>
  /\ findCall = <<>>
  /\ pageInfoCall = <<>>
ViewIdle ==
  /\ viewPc = "idle"
  /\ viewResponse = <<>>
  /\ viewNow = 0
  /\ viewTicks = 0
  /\ viewInterval = FALSE
  /\ viewPages = <<>>
  /\ viewIsLoading = TRUE
  /\ viewProgress = Zero
  /\ viewError = <<>>
  /\ viewExpiresIn = <<>>
RenderIdle ==
  /\ rPage = [width |-> 1, height |-> 1]
  /\ rOptions = [dpi |-> 200, maxWidth |-> 9, maxHeight |-> 9]
  /\ rCall = <<>>
LayoutIdle ==
  /\ lPages = <<>>
  /\ layout = <<>>
  /\ flatPages = <<>>
  /\ lpc = "idle"
  /\ arranged = <<>>
  /\ flipCall = <<>>

Init == PdfInit /\ DetectIdle /\ LayoutIdle /\ RenderIdle /\ HomeIdle /\ CallIdle /\ ViewIdle
Next == PdfNext /\ UNCHANGED <<detectVars, layoutVars, renderVars, homeVars, callVars, viewVars>>
Spec == Init /\ [][Next]_vars

\* calls of detectSpread on every width, height and threshold of the bounds
InitDetect == DetectInit /\ PdfIdle /\ LayoutIdle /\ RenderIdle /\ HomeIdle /\ CallIdle /\ ViewIdle
NextDetect == DetectSpread /\ UNCHANGED <<pdfVars, layoutVars, renderVars, homeVars, callVars, viewVars>>
SpecDetect == InitDetect /\ [][NextDetect]_vars

\* the layout engine on every page list of the bounds
InitLayout == LayoutInit /\ PdfIdle /\ DetectIdle /\ RenderIdle /\ HomeIdle /\ CallIdle /\ ViewIdle
NextLayout ==
  \/ CreateBookLayout /\ UNCHANGED <<pdfVars, detectVars, renderVars, homeVars, callVars, viewVars>>
  \/ FlattenForPageFlip /\ UNCHANGED <<pdfVars, detectVars, renderVars, homeVars, callVars, viewVars>>
  \/ ArrangeForBookViewer /\ UNCHANGED <<pdfVars, detectVars, renderVars, homeVars, callVars, viewVars>>
  \/ CalculateFlipAnimation /\ UNCHANGED <<pdfVars, detectVars, renderVars, homeVars, callVars, viewVars>>
  \/ FindSpreadByPageNumber /\ UNCHANGED <<pdfVars, detectVars, renderVars, homeVars, viewVars>>
SpecLayout == InitLayout /\ [][NextLayout]_vars

\* the renderer and the splitter on every page and configuration of the bounds
InitRender == RenderInit /\ PdfIdle /\ DetectIdle /\ LayoutIdle /\ HomeIdle /\ CallIdle /\ ViewIdle
NextRender ==
  \/ RenderPageToCanvas /\ UNCHANGED <<pdfVars, detectVars, layoutVars, homeVars, callVars, viewVars>>
  \/ SplitSpreadPageCall /\ UNCHANGED <<pdfVars, detectVars, layoutVars, homeVars, callVars, viewVars>>
SpecRender == InitRender /\ [][NextRender]_vars

\* processPDF followed by its consumers: BookViewer's layout and getPageInfo
InitBook == PdfInit /\ DetectIdle /\ LayoutIdle /\ RenderIdle /\ HomeIdle /\ CallIdle /\ ViewIdle
NextBook ==
  \/ PdfNext /\ UNCHANGED <<detectVars, layoutVars, renderVars, homeVars, callVars, viewVars>>
  \/ ViewerCreateBookLayout
       /\ UNCHANGED <<pdfVars, detectVars, renderVars, homeVars, callVars, viewVars>>
  \/ GetPageInfo
       /\ UNCHANGED <<pdfVars, detectVars, layoutVars, renderVars, homeVars, viewVars>>
SpecBook == InitBook /\ [][NextBook]_vars

\* the shared-link view page loading its PDF
InitView == ViewInit /\ DetectIdle /\ LayoutIdle /\ RenderIdle /\ HomeIdle /\ CallIdle
NextView ==
  ViewNext /\ UNCHANGED <<detectVars, layoutVars, renderVars, homeVars, callVars>>
SpecView == InitView /\ [][NextView]_vars

\* the two page sizers on every container and page size of the bounds
InitSizer == PdfIdle /\ DetectIdle /\ LayoutIdle /\ RenderIdle /\ HomeIdle /\ CallIdle /\ ViewIdle
NextSizer ==
  \/ CalculateResponsivePageSize
       /\ UNCHANGED <<pdfVars, detectVars, layoutVars, renderVars, homeVars, viewVars>>
  \/ BookViewerPageSize
       /\ UNCHANGED <<pdfVars, detectVars, layoutVars, renderVars, homeVars, viewVars>>
SpecSizer == InitSizer /\ [][NextSizer]_vars

\* the Home page: files selected, processed, shown, reset, and the unmount
InitHome == HomeInit /\ DetectIdle /\ LayoutIdle /\ RenderIdle /\ CallIdle /\ ViewIdle
NextHome == HomeNext /\ UNCHANGED <<detectVars, layoutVars, renderVars, callVars, viewVars>>
SpecHome == InitHome /\ [][NextHome]_vars
\* every await of a started run settles and its continuation runs; what the
\* user does (select, reset, leave) is under no obligation
HomeRunStep ==
  \/ LoadDocument
  \/ GetFirstPage /\ UNCHANGED homeVars
  \/ GetPage /\ UNCHANGED homeVars
  \/ SplitSpreadPage /\ UNCHANGED homeVars
  \/ PushLeft /\ UNCHANGED homeVars
  \/ PushRight /\ UNCHANGED homeVars
  \/ PushSingle /\ UNCHANGED homeVars
  \/ HomeOnProgress
  \/ Return /\ UNCHANGED homeVars
  \/ HomeRunResolves
  \/ HomeRunRejects
SpecHomeFair == SpecHome /\ WF_vars(HomeRunStep /\ UNCHANGED <<detectVars, layoutVars, renderVars, callVars, viewVars>>)

\* -------------------------------------------------------------------------
\* Properties of processPDF
\* -------------------------------------------------------------------------
IsTagged(p) == p.isLeftHalf \/ p.isRightHalf
IsWholePage(p) == ~p.isLeftHalf /\ ~p.isRightHalf /\ p.originalSpreadIndex = 0
\* positions of the output list that source page s contributed
EntriesOf(s) == {k \in 1..Len(pages) : srcOf[k] = s}
\* the split condition of source page s, in integer arithmetic:
\* w_s/h_s >= (w_1/h_1) * 1.8, or w_s/h_s >= threshold and w_s/h_s >= (w_1/h_1) * 1.5
RatioRule(s) ==
  \/ 10 * doc[s].width * doc[1].height >= 18 * doc[1].width * doc[s].height
  \/ (/\ 10 * doc[s].width >= options.spreadThreshold * doc[s].height
      /\ 10 * doc[s].width * doc[1].height >= 15 * doc[1].width * doc[s].height)
SplitCondition(s) == options.enableSpreadSplit /\ RatioRule(s)
InSplitBranch == pc \in {"split", "pushLeft", "pushRight"}

\* C1: at every point of a run the entry at 0-based position k of the output
\* list has pageNumber k+1 (the page numbers are 1..M, no gap, no repeat).
C1_PageNumbersContiguous ==
  \A k \in 1..Len(pages) : pages[k].pageNumber = k

C1_Witness ==
  /\ pc = "done"
  /\ \E k \in 1..Len(pages) : IsTagged(pages[k])
  /\ \E k \in 2..Len(pages) : ~IsTagged(pages[k])

\* C2: in a completed run every source page contributes exactly one untagged
\* entry or exactly two adjacent entries (left half then right half, both with
\* originalSpreadIndex = i), never none; entries are in source order; the
\* output length is N plus the number of split pages.
C2_OneOrTwoEntriesPerSourcePage ==
  pc = "done" =>
    /\ \A s \in 1..totalPages :
         \/ \E k \in 1..Len(pages) :
              /\ EntriesOf(s) = {k}
              /\ IsWholePage(pages[k])
         \/ \E k \in 1..(Len(pages) - 1) :
              /\ EntriesOf(s) = {k, k + 1}
              /\ pages[k].isLeftHalf /\ ~pages[k].isRightHalf
              /\ pages[k + 1].isRightHalf /\ ~pages[k + 1].isLeftHalf
              /\ pages[k].originalSpreadIndex = s
              /\ pages[k + 1].originalSpreadIndex = s
    /\ \A k \in 1..Len(pages) : srcOf[k] \in 1..totalPages
    /\ \A k, l \in 1..Len(pages) : k < l => srcOf[k] <= srcOf[l]
    /\ Len(pages) = totalPages
         + Cardinality({s \in 1..totalPages : Cardinality(EntriesOf(s)) = 2})

C2_Witness ==
  /\ pc = "done"
  /\ totalPages >= 3
  /\ Len(pages) = totalPages + 2

\* C3: with enableSpreadSplit = false the output has length N, page numbers
\* exactly 1..N, and no entry is tagged isLeftHalf or isRightHalf.
C3_NoSplitWhenDisabled ==
  ~options.enableSpreadSplit =>
    /\ \A k \in 1..Len(pages) : ~IsTagged(pages[k])
    /\ ~InSplitBranch
    /\ pc = "done" =>
         /\ Len(pages) = totalPages
         /\ \A k \in 1..totalPages : pages[k].pageNumber = k

C3_Witness ==
  /\ ~options.enableSpreadSplit
  /\ pc = "done"
  /\ totalPages >= 2
  /\ \E s \in 1..totalPages : RatioRule(s)

C6_ProgressPerSourcePage ==
  /\ Len(progress) = processedCount
  /\ Len(progress) = i - 1
  /\ \A k \in 1..Len(progress) :
       /\ IsFinite(progress[k])
       /\ progress[k].n * totalPages = k * progress[k].d
       /\ \A p \in 1..Len(pages) : srcOf[p] <= k <=> p <= progressAt[k]
       /\ EntriesOf(k) # {}
  /\ \A k, l \in 1..Len(progress) : k <= l => NumGeq(progress[l], progress[k])
  /\ pc = "done" =>
       /\ Len(progress) = totalPages
       /\ progress[totalPages].n = progress[totalPages].d

C6_Witness ==
  /\ pc = "done"
  /\ totalPages >= 3
  /\ Len(pages) > totalPages
  /\ Len(progress) = totalPages

\* -------------------------------------------------------------------------
\* Properties of detectSpread
\* -------------------------------------------------------------------------
\* C7: isSpread is true if and only if w/h >= t, and recommendedSplit is true
\* if and only if isSpread and w/h >= 1.8.
C7_IsSpreadIffRatioAtLeastThreshold ==
  dResult # <<>> =>
    /\ dResult[1].isSpread <=> (10 * dWidth >= dThreshold * dHeight)
    /\ dResult[1].recommendedSplit <=>
         (10 * dWidth >= dThreshold * dHeight /\ 10 * dWidth >= 18 * dHeight)

C7_Witness ==
  /\ dResult # <<>>
  /\ dResult[1].isSpread
  /\ ~dResult[1].recommendedSplit
  /\ 10 * dWidth = dThreshold * dHeight

\* C8: for all w, h > 0 and all thresholds t > 1 (including t >= 2) the
\* confidence returned by detectSpread is a number in [0, 1].
C8_ConfidenceInUnitInterval ==
  dResult # <<>> =>
    /\ IsFinite(dResult[1].confidence)
    /\ NumGeq(dResult[1].confidence, Zero)
    /\ NumGeq(One, dResult[1].confidence)

\* -------------------------------------------------------------------------
\* Properties of createBookLayout and flattenForPageFlip
\* -------------------------------------------------------------------------
\* the non-null entries of a flat page array, in order
RECURSIVE RemoveEmpty(_)
RemoveEmpty(flat) ==
  IF flat = <<>> THEN <<>> ELSE Head(flat) \o RemoveEmpty(Tail(flat))

\* C9: createBookLayout on N pages produces ceil(N/2) pairs (none for N = 0);
\* every pair has a non-empty left; the last pair's right is empty iff N is
\* odd; no other pair has an empty side.
C9_CeilHalfPairs ==
  lpc \in {"built", "flat"} =>
    LET n == Len(lPages)
        spreads == layout[1].spreads
    IN /\ Len(spreads) = (n + 1) \div 2
       /\ layout[1].totalSpreads = Len(spreads)
       /\ \A k \in 1..Len(spreads) : spreads[k].left # <<>>
       /\ \A k \in 1..(Len(spreads) - 1) : spreads[k].right # <<>>
       /\ n > 0 => (spreads[Len(spreads)].right = <<>> <=> n % 2 = 1)
       /\ Cardinality({k \in 1..Len(spreads) : spreads[k].right = <<>>}) <= 1

C9_Witness ==
  /\ lpc = "built"
  /\ Len(lPages) >= 3
  /\ Len(lPages) % 2 = 1
  /\ layout[1].spreads[Len(layout[1].spreads)].right = <<>>

C11_CoverAndLastFlags ==
  (lpc \in {"built", "flat"} /\ Len(lPages) >= 1) =>
    LET spreads == layout[1].spreads
    IN /\ Len(spreads) >= 1
       /\ \A k \in 1..Len(spreads) :
            /\ spreads[k].isCoverSpread <=> k = 1
            /\ spreads[k].isLastSpread <=> k = Len(spreads)
            /\ spreads[k].id = k - 1

C11_Witness ==
  /\ lpc = "built"
  /\ Len(lPages) = 4
  /\ Len(layout[1].spreads) = 2
  /\ layout[1].spreads[2].isLastSpread
  /\ ~layout[1].spreads[1].isLastSpread

C13_FewerThanTwoPagesFails ==
  (arranged # <<>> /\ Len(lPages) < 2) => arranged[1].threw

\* C14: for in-bounds indices calculateFlipAnimation returns direction
\* forward iff to > from and backward otherwise (also for to = from), with
\* fromSpread = spreads[from], toSpread = spreads[to], and flippingPage =
\* spreads[from].right when forward, spreads[from].left when backward.
FlipInBounds ==
  /\ flipCall[1].from \in 0..(Len(layout[1].spreads) - 1)
  /\ flipCall[1].to \in 0..(Len(layout[1].spreads) - 1)

C14_FlipDirectionAndPage ==
  (flipCall # <<>> /\ FlipInBounds) =>
    LET from == flipCall[1].from
        to == flipCall[1].to
        spreads == layout[1].spreads
        res == flipCall[1].result
    IN /\ res # <<>>
       /\ res[1].direction = "forward" <=> to > from
       /\ res[1].direction = "backward" <=> to <= from
       /\ res[1].fromSpread = spreads[from + 1]
       /\ res[1].toSpread = spreads[to + 1]
       /\ res[1].flippingPage = IF to > from THEN spreads[from + 1].right
                                             ELSE spreads[from + 1].left

C14_Witness ==
  /\ flipCall # <<>>
  /\ flipCall[1].from = 0
  /\ flipCall[1].to = 1
  /\ flipCall[1].result # <<>>
  /\ flipCall[1].result[1].direction = "forward"
  /\ flipCall[1].result[1].flippingPage = layout[1].spreads[1].right
  /\ layout[1].spreads[1].right # layout[1].spreads[1].left

\* C15: calculateFlipAnimation returns null if and only if fromIndex or
\* toIndex is outside 0..totalSpreads-1 (every call on an empty layout
\* included); a result never references a pair outside the layout.
C15_NullIffOutOfBounds ==
  flipCall # <<>> =>
    /\ flipCall[1].result = <<>> <=> ~FlipInBounds
    /\ flipCall[1].result # <<>> =>
         /\ \E k \in 1..layout[1].totalSpreads :
              flipCall[1].result[1].fromSpread = layout[1].spreads[k]
         /\ \E k \in 1..layout[1].totalSpreads :
              flipCall[1].result[1].toSpread = layout[1].spreads[k]

C15_Witness ==
  /\ flipCall # <<>>
  /\ flipCall[1].result = <<>>
  /\ flipCall[1].from = 0
  /\ flipCall[1].to = Len(layout[1].spreads)
  /\ Len(layout[1].spreads) >= 2

\* -------------------------------------------------------------------------
\* Properties of renderPageToCanvas and splitSpreadPage
\* -------------------------------------------------------------------------
\* a = n/d as numbers, in integer arithmetic
IsRational(a, n, d) == IsFinite(a) /\ a.n * d = n * a.d
\* a crop of cw x ch page units exceeds a maximum at scale dpi/72
ExceedsMax(cw, ch) ==
  \/ cw * rOptions.dpi > 72 * rOptions.maxWidth
  \/ ch * rOptions.dpi > 72 * rOptions.maxHeight

\* C19: without a downscale both halves of splitSpreadPage have pixel width
\* floor((W/2)*(D/72)) and pixel height floor(H*(D/72)); in every case the two
\* halves have the same width and the same height, and the crop regions
\* {0,0,W/2,H} and {W/2,0,W/2,H} cover the page without overlap or gap.
C19_SplitHalvesEqual ==
  (rCall # <<>> /\ rCall[1].op = "split") =>
    LET o == rCall[1].out
        W == rPage.width
        H == rPage.height
        D == rOptions.dpi
    IN /\ o.left.width = o.right.width
       /\ o.left.height = o.right.height
       /\ IsRational(o.leftCrop.x, 0, 1) /\ IsRational(o.leftCrop.y, 0, 1)
       /\ IsRational(o.leftCrop.width, W, 2) /\ IsRational(o.leftCrop.height, H, 1)
       /\ IsRational(o.rightCrop.x, W, 2) /\ IsRational(o.rightCrop.y, 0, 1)
       /\ IsRational(o.rightCrop.width, W, 2) /\ IsRational(o.rightCrop.height, H, 1)
       /\ ~(W * D > 144 * rOptions.maxWidth \/ H * D > 72 * rOptions.maxHeight) =>
            /\ o.left.width = (W * D) \div 144
            /\ o.left.height = (H * D) \div 72
            /\ o.right.width = (W * D) \div 144
            /\ o.right.height = (H * D) \div 72

C19_Witness ==
  /\ rCall # <<>>
  /\ rCall[1].op = "split"
  /\ ~rCall[1].out.left.fitted
  /\ (rPage.width * rOptions.dpi) % 144 # 0
  /\ (rPage.height * rOptions.dpi) % 72 # 0
  /\ rCall[1].out.left.width >= 1

\* C20: the canvas of renderPageToCanvas has width <= maxWidth and height <=
\* maxHeight; when the target size at scale dpi/72 exceeds a maximum, both
\* dimensions and the scale are multiplied by fitRatio = min(maxWidth /
\* targetWidth, maxHeight / targetHeight) and the dimensions are floored;
\* otherwise the size is the target size at scale dpi/72.
C20_CanvasWithinMax ==
  /\ (rCall # <<>> /\ rCall[1].op = "split") =>
       /\ rCall[1].out.left.width <= rOptions.maxWidth
       /\ rCall[1].out.left.height <= rOptions.maxHeight
       /\ rCall[1].out.right.width <= rOptions.maxWidth
       /\ rCall[1].out.right.height <= rOptions.maxHeight
  /\ (rCall # <<>> /\ rCall[1].op = "render") =>
       LET o == rCall[1].out
           cw == IF rCall[1].crop = <<>> THEN rPage.width
                                         ELSE rCall[1].crop[1].width.n
           ch == IF rCall[1].crop = <<>> THEN rPage.height
                                         ELSE rCall[1].crop[1].height.n
           D == rOptions.dpi
           mw == rOptions.maxWidth
           mh == rOptions.maxHeight
       IN /\ o.width <= mw
          /\ o.height <= mh
          /\ ~ExceedsMax(cw, ch) =>
               /\ o.width = (cw * D) \div 72
               /\ o.height = (ch * D) \div 72
               /\ IsRational(o.scale, D, 72)
          /\ (ExceedsMax(cw, ch) /\ mw * ch <= mh * cw) =>
               /\ o.width = mw
               /\ o.height = (ch * mw) \div cw
               /\ IsRational(o.scale, mw, cw)
          /\ (ExceedsMax(cw, ch) /\ mw * ch > mh * cw) =>
               /\ o.width = (cw * mh) \div ch
               /\ o.height = mh
               /\ IsRational(o.scale, mh, ch)

C20_Witness ==
  /\ rCall # <<>>
  /\ rCall[1].op = "render"
  /\ rCall[1].crop # <<>>
  /\ rCall[1].out.fitted
  /\ rCall[1].out.height = rOptions.maxHeight
  /\ rCall[1].out.width < rOptions.maxWidth
  /\ rCall[1].out.width >= 1

\* -------------------------------------------------------------------------
\* Home: release of blob URLs, aborted and abandoned runs
\* -------------------------------------------------------------------------
RevokeCount(u) == Cardinality({k \in 1..Len(revokeLog) : revokeLog[k] = u})
\* the page list Home currently holds for display
Displayed == IF mounted THEN BlobURLs(hPages) ELSE {}
UrlIds == 1..(2 * MaxHomePages * MaxRuns)

\* C16: every blob URL of a page list that was set as the displayed pages is
\* released exactly once: URL.revokeObjectURL is called at most once on it, and
\* has been called on it once the list is no longer displayed.
C16_ReleasedExactlyOnce ==
  \A u \in shown :
    /\ RevokeCount(u) <= 1
    /\ u \notin Displayed => RevokeCount(u) = 1

\* C17: once rasterizing or encoding source page k has failed, the run is
\* over: processPDF never reaches its return, the loop index stays at k, only
\* pages 1..k-1 were counted and reported to onProgress, no output entry comes
\* from a page after k, and Home's pages state still is what it was when the
\* run started (empty).
C17_PageFailureAbortsRun ==
  failedPage # 0 =>
    /\ pc \in {"failed", "idle"}
    /\ i = failedPage
    /\ processedCount = failedPage - 1
    /\ Len(progress) = failedPage - 1
    /\ \A k \in 1..Len(srcOf) : srcOf[k] <= failedPage
    /\ hPages = <<>>
    /\ BlobURLs(pages) \cap shown = {}
C17_Witness ==
  /\ failedPage = 2
  /\ pc = "idle"
  /\ Len(pages) > 0
  /\ Len(progress) = 1
  /\ ~isLoading
  /\ mounted

\* C18: a blob URL created by a run that is over and did not hand its list to
\* Home (the run aborted, or Home was unmounted when it resolved) is
\* eventually passed to URL.revokeObjectURL.
C18_UndeliveredEventuallyReleased ==
  \A u \in UrlIds :
    (pc = "idle" /\ u <= nextUrl /\ u \notin shown) ~> (RevokeCount(u) >= 1)

\* -------------------------------------------------------------------------
\* Properties of the page sizers
\* -------------------------------------------------------------------------
\* x = floor(v * q) for the integer v and the rational q = n/d, d > 0
IsFloorOfProduct(x, v, q) == x * q.d <= v * q.n /\ v * q.n < (x + 1) * q.d

\* C21: calculateResponsivePageSize never upscales (scale <= 1, width =
\* floor(pageWidth * scale) <= pageWidth, height likewise), and when the usable
\* area is positive on both axes the result fits in it: height <= usable
\* height, and width (single view) or 2 * width (spread view) <= usable width.
C21_NeverUpscalesAndFits ==
  sizeCall # <<>> =>
    LET c == sizeCall[1]
        r == c.out
        usableWidth == c.containerWidth - 2 * c.padding
        usableHeight == c.containerHeight - 2 * c.padding
    IN /\ r.scale.kind = "fin"
       /\ r.scale.d > 0
       /\ r.scale.n <= r.scale.d
       /\ IsFloorOfProduct(r.width, c.originalPageWidth, r.scale)
       /\ IsFloorOfProduct(r.height, c.originalPageHeight, r.scale)
       /\ r.width <= c.originalPageWidth
       /\ r.height <= c.originalPageHeight
       /\ (usableWidth > 0 /\ usableHeight > 0) =>
            /\ r.height <= usableHeight
            /\ c.isSpreadView => 2 * r.width <= usableWidth
            /\ ~c.isSpreadView => r.width <= usableWidth
C21_Witness ==
  /\ sizeCall # <<>>
  /\ sizeCall[1].isSpreadView
  /\ sizeCall[1].containerWidth - 2 * sizeCall[1].padding > 0
  /\ sizeCall[1].containerHeight - 2 * sizeCall[1].padding > 0
  /\ sizeCall[1].out.scale.n < sizeCall[1].out.scale.d
  /\ sizeCall[1].out.width >= 1
  /\ sizeCall[1].out.width < sizeCall[1].originalPageWidth

Measured == pageSizeCall # <<>> /\ pageSizeCall[1].pagesLength > 0
            /\ pageSizeCall[1].dimWidth # 0 /\ pageSizeCall[1].dimHeight # 0

\* C27 (as stated): once the container is measured, the page size keeps the
\* two-page opening within the container less 100 px on each axis, and each
\* of width and height is at least 300, for every container size.
C27_OpeningWithinContainer ==
  Measured =>
    LET c == pageSizeCall[1]
    IN /\ 2 * c.out.width <= c.dimWidth - 100
       /\ c.out.height <= c.dimHeight - 100
       /\ c.out.width >= 300
       /\ c.out.height >= 300

\* C27 (amended): once the container is measured, width and height are at
\* least 300; and when the container leaves room for the minimum opening
\* (containerWidth - 100 >= 600 and containerHeight - 100 >= 300) the
\* two-page opening stays within the container less 100 px on each axis.
C27_OpeningWithinRoomyContainer ==
  Measured =>
    LET c == pageSizeCall[1]
    IN /\ c.out.width >= 300
       /\ c.out.height >= 300
       /\ (c.dimWidth - 100 >= 600 /\ c.dimHeight - 100 >= 300) =>
            /\ 2 * c.out.width <= c.dimWidth - 100
            /\ c.out.height <= c.dimHeight - 100
C27_Witness ==
  /\ Measured
  /\ pageSizeCall[1].dimWidth - 100 >= 600
  /\ pageSizeCall[1].dimHeight - 100 >= 300
  /\ pageSizeCall[1].out.width > 300
  /\ pageSizeCall[1].out.height > 300
  /\ pageSizeCall[1].out.height < pageSizeCall[1].dimHeight - 100

\* -------------------------------------------------------------------------
\* Properties of findSpreadByPageNumber and of forward flips
\* -------------------------------------------------------------------------
\* pair k (1-based) of the built layout has a side with page number p
PairHas(k, p) ==
  LET sp == layout[1].spreads[k]
  IN \/ sp.left # <<>> /\ sp.left[1].pageNumber = p
     \/ sp.right # <<>> /\ sp.right[1].pageNumber = p
NumberedInOrder == \A k \in 1..Len(lPages) : lPages[k].pageNumber = k

\* C26: findSpreadByPageNumber returns the lowest index whose pair has a side
\* with the page number, -1 exactly when no pair has one, and for pages
\* numbered 1..M in order floor((p-1)/2) for 1 <= p <= M and -1 otherwise.
C26_FindSpreadByPageNumber ==
  findCall # <<>> =>
    LET p == findCall[1].pageNumber
        r == findCall[1].result
        n == Len(layout[1].spreads)
    IN /\ r = -1 <=> \A k \in 1..n : ~PairHas(k, p)
       /\ r # -1 => /\ r \in 0..(n - 1)
                    /\ PairHas(r + 1, p)
                    /\ \A k \in 1..r : ~PairHas(k, p)
       /\ NumberedInOrder =>
            r = IF 1 <= p /\ p <= Len(lPages) THEN (p - 1) \div 2 ELSE -1
C26_Witness ==
  /\ findCall # <<>>
  /\ NumberedInOrder
  /\ Len(lPages) = 3
  /\ findCall[1].pageNumber = 3
  /\ findCall[1].result = 1

\* C30: for in-bounds indices with toIndex > fromIndex, calculateFlipAnimation
\* returns a flippingPage that is a page, not the empty side.
C30_ForwardFlipTurnsAPage ==
  flipCall # <<>> =>
    LET c == flipCall[1]
        n == Len(layout[1].spreads)
    IN (c.from \in 0..(n - 1) /\ c.to \in 0..(n - 1) /\ c.to > c.from) =>
         /\ c.result # <<>>
         /\ c.result[1].flippingPage # <<>>
         /\ c.result[1].flippingPage = <<lPages[2 * c.from + 2]>>
C30_Witness ==
  /\ flipCall # <<>>
  /\ Len(lPages) = 3
  /\ flipCall[1].from = 0
  /\ flipCall[1].to = 1
  /\ flipCall[1].result # <<>>
  /\ flipCall[1].result[1].toSpread.right = <<>>
  /\ flipCall[1].result[1].flippingPage # <<>>

\* -------------------------------------------------------------------------
\* Properties of the processed list as BookViewer lays it out
\* -------------------------------------------------------------------------
\* C22: for a processed document of at least 2 pages the first opening of
\* the viewer's layout has the last page of the processed list on the left
\* and the first page on the right.
C22_FirstOpeningCoversFacing ==
  (lpc = "built" /\ Len(pages) >= 2) =>
    /\ layout[1].spreads[1].left = <<pages[Len(pages)]>>
    /\ layout[1].spreads[1].right = <<pages[1]>>

\* C23: in a completed run on a document of N >= 2 pages, source page N
\* contributes exactly one entry, and it is a whole page.
C23_LastPageNeverSplit ==
  (pc = "done" /\ Len(doc) >= 2) =>
    /\ Cardinality(EntriesOf(Len(doc))) = 1
    /\ \A k \in EntriesOf(Len(doc)) : IsWholePage(pages[k])

\* C24: in the viewer's layout of a processed list, every entry tagged
\* isLeftHalf is the left side of a pair whose right side is the entry tagged
\* isRightHalf with the same originalSpreadIndex.
C24_HalvesFormOneOpening ==
  lpc = "built" =>
    \A k \in 1..Len(pages) :
      pages[k].isLeftHalf =>
        \E j \in 1..Len(layout[1].spreads) :
          LET sp == layout[1].spreads[j]
          IN /\ sp.left = <<pages[k]>>
             /\ sp.right # <<>>
             /\ sp.right[1].isRightHalf
             /\ sp.right[1].originalSpreadIndex = pages[k].originalSpreadIndex

\* C25: processPDF splits page i if and only if getPageInfo(pdf, i,
\* options).isSpread, i.e. if and only if enableSpreadSplit is on and
\* width/height >= spreadThreshold.
C25_ClassifiersAgree ==
  pageInfoCall # <<>> =>
    LET k == pageInfoCall[1].pageNumber
        info == pageInfoCall[1].info
        wasSplit == \E e \in EntriesOf(k) : IsTagged(pages[e])
        byThreshold == /\ options.enableSpreadSplit
                       /\ 10 * doc[k].width >= options.spreadThreshold * doc[k].height
    IN /\ info.isSpread <=> byThreshold
       /\ wasSplit <=> info.isSpread

\* -------------------------------------------------------------------------
\* Home: the page list given to the presentation layer
\* -------------------------------------------------------------------------
\* the pages state is the whole output of the last processPDF run, which
\* returned normally after processing every source page
CompleteOutput ==
  /\ hPages = pages
  /\ pc = "idle"
  /\ failedPage = 0
  /\ processedCount = Len(doc)
  /\ \A s \in 1..Len(doc) : EntriesOf(s) # {}

\* C28: Home's pages state is at every moment empty or the complete output
\* of one processPDF run that finished successfully; a run is started only
\* while no run is in progress, isLoading is false and no pages are displayed.
C28_EmptyOrCompleteOneRunAtATime ==
  /\ [](hPages # <<>> => CompleteOutput)
  /\ [](pc # "idle" /\ mounted => isLoading /\ hPages = <<>>)
  /\ [][runs' # runs => pc = "idle" /\ ~isLoading /\ hPages = <<>>]_vars
C28_Witness ==
  /\ runs = 2
  /\ mounted
  /\ Len(hPages) >= 2
  /\ ~isLoading
  /\ revokeLog # <<>>

\* -------------------------------------------------------------------------
\* Property of the shared-link view
\* -------------------------------------------------------------------------
\* the answer came from GET for an existing, unexpired PDF
AnsweredByGet ==
  /\ viewResponse # <<>>
  /\ viewResponse[1].ok
  /\ viewResponse[1].hasExpiresAt

\* C29: when GET answered successfully (url and expiresAt) and nothing
\* failed, loadPDF does not end (isLoading false) with an empty page list and
\* no error: it has run processPDF and set pages to its non-empty output.
C29_SharedPdfIsShown ==
  (AnsweredByGet /\ viewPc = "ended" /\ viewError = <<>>) =>
    /\ viewPages # <<>>
    /\ viewPages = pages
    /\ processedCount = Len(doc)

====
